---- MODULE Spec2Model ----
(***************************************************************************)
(* A model of dsctl.py: one run of the command-line script, from argument  *)
(* parsing to process exit.  Python values are tagged records (field t),   *)
(* an exception that propagates out of an expression is the value          *)
(* Raise(name), and text that the code splits or formats is a sequence of  *)
(* one-character strings.                                                  *)
(***************************************************************************)
EXTENDS Integers, Sequences, FiniteSets, TLC

VARIABLES args, pc, token, schema, spec, requests, response, result, exc,
          exit_code, stdout

vars == <<args, pc, token, schema, spec, requests, response, result, exc,
          exit_code, stdout>>

\* Bound on the number of hyphen-separated components of a version string.
MaxParts == 4

(***************************************************************************)
(* Python values                                                           *)
(***************************************************************************)
PyNone == [t |-> "none"]

Unset == [t |-> "unset"]

PyStr(cs) == [t |-> "str", s |-> cs]

PyInt(n) == [t |-> "int", n |-> n]

PyBool(b) == [t |-> "bool", b |-> b]

PyList(n) == [t |-> "list", n |-> n]

PyDict(f) == [t |-> "dict", d |-> f]

Raise(e) == [t |-> "raise", exc |-> e]

IsRaise(v) == v.t = "raise"

\* Python truth value of an object (the `not x` tests of the script).
Truthy(v) ==
    CASE v.t = "none" -> FALSE
      [] v.t = "str"  -> Len(v.s) > 0
      [] v.t = "int"  -> v.n # 0
      [] v.t = "bool" -> v.b
      [] v.t = "list" -> v.n > 0
      [] v.t = "dict" -> DOMAIN v.d # {}
      [] OTHER        -> TRUE

\* obj[key] for a string key: KeyError on a dict without the key, TypeError
\* on None, a list or a string.
GetItem(obj, key) ==
    IF obj.t = "dict"
    THEN IF key \in DOMAIN obj.d THEN obj.d[key] ELSE Raise("KeyError")
    ELSE Raise("TypeError")

(***************************************************************************)
(* Text                                                                    *)
(***************************************************************************)
Hyphen == "-"

RECURSIVE SplitFrom(_, _, _)
\* str.split('-'): cs is the text still to scan, cur the component being
\* collected, acc the components already closed.
SplitFrom(cs, cur, acc) ==
    IF cs = << >> THEN Append(acc, cur)
    ELSE IF Head(cs) = Hyphen
         THEN SplitFrom(Tail(cs), << >>, Append(acc, cur))
         ELSE SplitFrom(Tail(cs), Append(cur, Head(cs)), acc)

Split(cs) == SplitFrom(cs, << >>, << >>)

\* "{}-{}-{}".format(a, b, c) on three str objects.
Format3(a, b, c) == a.s \o <<Hyphen>> \o b.s \o <<Hyphen>> \o c.s

(***************************************************************************)
(* Data classes                                                            *)
(***************************************************************************)
DataStructure(vendor, name, format) ==
    [vendor |-> vendor, name |-> name, format |-> format]

\* Version(*parts): the generated __init__ takes exactly three positional
\* arguments and stores them unconverted.
Version(parts) ==
    IF Len(parts) # 3 THEN Raise("TypeError")
    ELSE [t |-> "Version", model |-> PyStr(parts[1]),
          revision |-> PyStr(parts[2]), addition |-> PyStr(parts[3])]

Deployment(ds, v) == [t |-> "Deployment", data_structure |-> ds, version |-> v]

(***************************************************************************)
(* HTTP                                                                    *)
(***************************************************************************)
\* What requests.get / requests.post can produce: a RequestException, or a
\* Response with a status class and a body.
NotJSON == [t |-> "notjson"]

Response(ok, body) == [t |-> "Response", ok |-> ok, body |-> body]

\* response.json()
json(r) == IF r.body.t = "notjson" THEN Raise("JSONDecodeError") ELSE r.body

\* The value left by a try block whose except clauses name the exceptions
\* in caught and fall through to the end of the function (return None).
ReturnNoneOn(v, caught) == IF IsRaise(v) /\ v.exc \in caught THEN PyNone ELSE v

get_token_try(outcome) ==
    IF IsRaise(outcome) THEN outcome
    ELSE LET body == json(outcome)
         IN  IF IsRaise(body) THEN body ELSE GetItem(body, "accessToken")

\* get_token(): outcome is what the GET produced.
get_token(outcome) ==
    ReturnNoneOn(get_token_try(outcome),
                 {"RequestException", "JSONDecodeError", "KeyError"})

get_base_headers(auth_token) == [Authorization |-> <<"Bearer", auth_token>>]

\* handle_response(response, action): a bool, or the exception that leaves it.
handle_response(r, action) ==
    IF r.ok
    THEN LET body == json(r)
         IN  IF IsRaise(body) THEN PyBool(FALSE)
             ELSE LET success == GetItem(body, "success")
                  IN  IF IsRaise(success)
                      THEN IF success.exc = "KeyError" THEN PyBool(FALSE)
                           ELSE success
                      ELSE IF ~Truthy(success)
                           THEN LET errors == GetItem(body, "errors")
                                IN  IF IsRaise(errors) /\ errors.exc # "KeyError"
                                    THEN errors ELSE PyBool(FALSE)
                           ELSE PyBool(TRUE)
    ELSE PyBool(FALSE)

SchemaType == {PyStr(<<"event">>), PyStr(<<"entity">>)}

ValidationPayload(data_structure, stype, contains_meta) ==
    IF ~contains_meta
    THEN [t |-> "wrapped",
          meta |-> [hidden |-> FALSE, schemaType |-> stype, customData |-> << >>],
          data |-> data_structure]
    ELSE data_structure

\* validate, sending the request again when the first attempt did not succeed.
validate_retry(data_structure, auth_token, stype, contains_meta, outcome) ==
    LET req == [method |-> "POST", url |-> "validation-requests",
                json |-> ValidationPayload(data_structure, stype, contains_meta),
                headers |-> get_base_headers(auth_token)]
        ret == IF IsRaise(outcome) THEN PyBool(FALSE)
               ELSE handle_response(outcome, "validation")
    IN  [sent |-> IF ret = PyBool(TRUE) THEN <<req>> ELSE <<req, req>>,
         response |-> outcome, ret |-> ret]

\* validate(...): outcome is what the POST produces if it is made.  The
\* result names the requests made, the response received and the value
\* returned (or the exception raised).
validate(data_structure, auth_token, stype, contains_meta, outcome) ==
    IF stype \notin SchemaType
    THEN [sent |-> << >>, response |-> Unset, ret |-> PyBool(FALSE)]
    ELSE LET req == [method |-> "POST", url |-> "validation-requests",
                     json |-> ValidationPayload(data_structure, stype, contains_meta),
                     headers |-> get_base_headers(auth_token)]
         IN  IF IsRaise(outcome)
             THEN [sent |-> <<req>>, response |-> outcome, ret |-> PyBool(FALSE)]
             ELSE [sent |-> <<req>>, response |-> outcome,
                   ret |-> handle_response(outcome, "validation")]

\* The payload with the two environment pairs taken the wrong way round.
PromotionPayload_swapped(deployment, deployment_message, to_production) ==
    [name    |-> deployment.data_structure.name,
     vendor  |-> deployment.data_structure.vendor,
     format  |-> deployment.data_structure.format,
     version |-> Format3(deployment.version.model, deployment.version.revision,
                         deployment.version.addition),
     source  |-> IF to_production THEN "VALIDATED" ELSE "DEV",
     target  |-> IF to_production THEN "DEV" ELSE "PROD",
     message |-> deployment_message]

PromotionPayload(deployment, deployment_message, to_production) ==
    [name    |-> deployment.data_structure.name,
     vendor  |-> deployment.data_structure.vendor,
     format  |-> deployment.data_structure.format,
     version |-> Format3(deployment.version.model, deployment.version.revision,
                         deployment.version.addition),
     source  |-> IF ~to_production THEN "VALIDATED" ELSE "DEV",
     target  |-> IF ~to_production THEN "DEV" ELSE "PROD",
     message |-> deployment_message]

promote(deployment, auth_token, deployment_message, to_production, outcome) ==
    LET req == [method |-> "POST", url |-> "deployment-requests",
                json |-> PromotionPayload(deployment, deployment_message, to_production),
                headers |-> get_base_headers(auth_token)]
    IN  IF IsRaise(outcome)
        THEN [sent |-> <<req>>, response |-> outcome, ret |-> PyBool(FALSE)]
        ELSE [sent |-> <<req>>, response |-> outcome,
              ret |-> handle_response(outcome, "promotion")]

(***************************************************************************)
(* Identity resolution and input                                           *)
(***************************************************************************)
resolve_try(data_structure, includes_meta) ==
    LET data  == GetItem(data_structure, "data")
        _self == IF ~includes_meta THEN GetItem(data_structure, "self")
                 ELSE IF IsRaise(data) THEN data ELSE GetItem(data, "self")
    IN  IF IsRaise(_self) THEN _self ELSE
        LET vendor == GetItem(_self, "vendor") IN
        IF IsRaise(vendor) THEN vendor ELSE
        LET name == GetItem(_self, "name") IN
        IF IsRaise(name) THEN name ELSE
        LET ds_format == GetItem(_self, "format") IN
        IF IsRaise(ds_format) THEN ds_format ELSE
        LET version == GetItem(_self, "version") IN
        IF IsRaise(version) THEN version ELSE
        IF version.t # "str" THEN Raise("AttributeError") ELSE
        LET ds == DataStructure(vendor, name, ds_format)
            v  == Version(Split(version.s))
        IN  IF IsRaise(v) THEN v ELSE Deployment(ds, v)

\* resolve(data_structure, includes_meta): a Deployment, None, or the
\* exception that neither except clause catches.
resolve(data_structure, includes_meta) ==
    ReturnNoneOn(resolve_try(data_structure, includes_meta),
                 {"ValueError", "KeyError"})

\* parse_input_file: the input is unreadable, is not JSON, or is the text of
\* a JSON value; every exception is caught and None returned.
parse_input_file(input) ==
    IF input.kind = "json" THEN input.value ELSE PyNone

(***************************************************************************)
(* Inputs of a run                                                         *)
(***************************************************************************)
Word(w) == PyStr(<<w>>)

\* The hyphen-free pieces version strings are built from: empty, an
\* integer, a non-integer.
Pieces == {<< >>, <<"1">>, <<"a">>}

RECURSIVE Join(_)
Join(parts) ==
    IF Len(parts) = 1 THEN parts[1]
    ELSE parts[1] \o <<Hyphen>> \o Join(Tail(parts))

\* Every text of one to MaxParts pieces separated by hyphens.
VersionTexts == {Join(p) : p \in UNION {[1..n -> Pieces] : n \in 1..MaxParts}}

SelfKeys == {"vendor", "name", "format", "version"}

GoodVersion == <<"1", "-", "1", "-", "1">>

SelfSection(keys, ver) ==
    PyDict([k \in keys |-> IF k = "version" THEN PyStr(ver) ELSE Word(k)])

SelfSections ==
    {SelfSection(keys, GoodVersion) : keys \in SUBSET SelfKeys}
      \cup {SelfSection(SelfKeys, ver) : ver \in VersionTexts}

\* JSON documents: a non-object, objects without self or data, and objects
\* carrying a self section at the top level or inside data.
Documents ==
    {PyList(0), PyDict([k \in {} |-> PyNone]),
     PyDict([k \in {"data"} |-> PyDict([j \in {} |-> PyNone])])}
      \cup {PyDict([k \in {"self"} |-> s]) : s \in SelfSections}
      \cup {PyDict([k \in {"data"} |-> PyDict([j \in {"self"} |-> s])]) : s \in SelfSections}

Inputs ==
    {[kind |-> "unreadable", value |-> PyNone],
     [kind |-> "invalid_json", value |-> PyNone]}
      \cup {[kind |-> "json", value |-> d] : d \in Documents}

FetchedToken == Word("fetched")

GivenToken == Word("given")

TokenBodies ==
    {NotJSON, PyList(0), PyDict([k \in {} |-> PyNone]),
     PyDict([k \in {"accessToken"} |-> FetchedToken]),
     PyDict([k \in {"accessToken"} |-> PyStr(<< >>)])}

TokenOutcomes ==
    {Raise("RequestException")}
      \cup {Response(ok, b) : ok \in BOOLEAN, b \in TokenBodies}

ResultBodies ==
    {NotJSON, PyList(0), PyDict([k \in {} |-> PyNone]),
     PyDict([k \in {"success"} |-> PyBool(TRUE)]),
     PyDict([k \in {"success"} |-> PyBool(FALSE)]),
     PyDict([k \in {"success", "errors"} |->
               IF k = "success" THEN PyBool(FALSE) ELSE PyList(1)])}

PostOutcomes ==
    {Raise("RequestException")}
      \cup {Response(ok, b) : ok \in BOOLEAN, b \in ResultBodies}

\* argparse.Namespace of parse_arguments(); an option not given is None
\* (store_true options are False).
Arguments ==
    [token_only      : BOOLEAN,
     token           : {PyNone, GivenToken},
     type            : {PyNone, Word("event"), Word("entity")},
     includes_meta   : BOOLEAN,
     promote_to_dev  : BOOLEAN,
     promote_to_prod : BOOLEAN,
     message         : {PyNone, Word("msg")}]

(***************************************************************************)
(* The run                                                                 *)
(***************************************************************************)
Init ==
    /\ args \in Arguments
    /\ pc = "main"
    /\ token = Unset
    /\ schema = Unset
    /\ spec = Unset
    /\ requests = << >>
    /\ response = Unset
    /\ result = Unset
    /\ exc = "none"
    /\ exit_code = -1
    /\ stdout = << >>

TokenRequest ==
    [method |-> "GET", url |-> "credentials/v2/token", json |-> PyNone,
     headers |-> [X_API_Key |-> "CONSOLE_API_KEY"]]

\* An exception nobody catches ends the interpreter with status 1.
Crash(e) ==
    /\ exc' = e.exc
    /\ exit_code' = 1
    /\ pc' = "exit"

\* __main__ with --token-only: fetch, print, exit.
TokenOnly ==
    /\ pc = "main"
    /\ args.token_only
    /\ \E outcome \in TokenOutcomes :
         LET tk == get_token(outcome)
         IN  /\ requests' = Append(requests, TokenRequest)
             /\ IF IsRaise(tk)
                THEN Crash(tk) /\ UNCHANGED <<token, stdout>>
                ELSE /\ token' = tk
                     /\ pc' = "exit"
                     /\ exc' = exc
                     /\ IF ~Truthy(tk)
                        THEN exit_code' = 1 /\ stdout' = stdout
                        ELSE exit_code' = 0 /\ stdout' = Append(stdout, tk)
    /\ UNCHANGED <<args, schema, spec, response, result>>

\* flow: token = args.token if args.token else get_token()
FlowTokenStep ==
    /\ IF Truthy(args.token)
       THEN /\ token' = args.token
            /\ pc' = "flow_parse"
            /\ UNCHANGED <<requests, exc, exit_code>>
       ELSE \E outcome \in TokenOutcomes :
              LET tk == get_token(outcome)
              IN  /\ requests' = Append(requests, TokenRequest)
                  /\ IF IsRaise(tk)
                     THEN Crash(tk) /\ token' = token
                     ELSE /\ token' = tk
                          /\ pc' = "flow_parse"
                          /\ UNCHANGED <<exc, exit_code>>
    /\ UNCHANGED <<args, schema, spec, response, result, stdout>>

\* flow entered without looking at --token-only.
FlowToken_unguarded ==
    /\ pc = "main"
    /\ FlowTokenStep

\* __main__ without --token-only: flow(arguments), first step.
FlowToken ==
    /\ pc = "main"
    /\ ~args.token_only
    /\ FlowTokenStep

\* flow: schema = parse_input_file(args.file), then
\* spec = resolve(schema, args.includes_meta)
FlowResolve ==
    /\ pc = "flow_parse"
    /\ \E input \in Inputs :
         LET parsed == parse_input_file(input)
             r      == resolve(parsed, args.includes_meta)
         IN  /\ schema' = parsed
             /\ IF IsRaise(r)
                THEN Crash(r) /\ spec' = spec
                ELSE spec' = r /\ pc' = "flow_check" /\ UNCHANGED <<exc, exit_code>>
    /\ UNCHANGED <<args, token, requests, response, result, stdout>>

Incomplete == ~Truthy(token) \/ ~Truthy(schema) \/ ~Truthy(spec)

\* The process ending with status 0 whatever flow returned.
Return_zero(ret) ==
    IF IsRaise(ret)
    THEN Crash(ret) /\ result' = result
    ELSE /\ result' = ret
         /\ exit_code' = 0
         /\ exc' = exc
         /\ pc' = "exit"

\* What flow's return (or exception) makes of the process.
Return(ret) ==
    IF IsRaise(ret)
    THEN Crash(ret) /\ result' = result
    ELSE /\ result' = ret
         /\ exit_code' = IF ~Truthy(ret) THEN 1 ELSE 0
         /\ exc' = exc
         /\ pc' = "exit"

\* flow: if not token or not schema or not spec: return False
FlowFail ==
    /\ pc = "flow_check"
    /\ Incomplete
    /\ Return(PyBool(FALSE))
    /\ UNCHANGED <<args, token, schema, spec, requests, response, stdout>>

message == IF Truthy(args.message) THEN args.message
           ELSE Word("No message provided")

schema_type == IF Truthy(args.type) THEN args.type ELSE Word("event")

FlowPromote ==
    /\ pc = "flow_check"
    /\ ~Incomplete
    /\ args.promote_to_dev \/ args.promote_to_prod
    /\ \E outcome \in PostOutcomes :
         LET r == promote(spec, token, message,
                          IF args.promote_to_prod THEN TRUE ELSE FALSE, outcome)
         IN  /\ requests' = requests \o r.sent
             /\ response' = r.response
             /\ Return(r.ret)
    /\ UNCHANGED <<args, token, schema, spec, stdout>>

FlowValidate ==
    /\ pc = "flow_check"
    /\ ~Incomplete
    /\ ~(args.promote_to_dev \/ args.promote_to_prod)
    /\ \E outcome \in PostOutcomes :
         LET r == validate(schema, token, schema_type, args.includes_meta, outcome)
         IN  /\ requests' = requests \o r.sent
             /\ response' = r.response
             /\ Return(r.ret)
    /\ UNCHANGED <<args, token, schema, spec, stdout>>

Next ==
    \/ TokenOnly
    \/ FlowToken
    \/ FlowResolve
    \/ FlowFail
    \/ FlowPromote
    \/ FlowValidate

Spec == Init /\ [][Next]_vars

\* The interpreter runs the script's statements one after the other and every
\* blocking call returns or raises.
FairSpec == Spec /\ WF_vars(Next)

TypeOK ==
    /\ pc \in {"main", "flow_parse", "flow_check", "exit"}
    /\ exit_code \in {-1, 0, 1}
    /\ (pc = "exit") = (exit_code # -1)

(***************************************************************************)
(* Vocabulary of the properties                                            *)
(***************************************************************************)
IsValidation(r) == r.method = "POST" /\ r.url = "validation-requests"

IsPromotion(r) == r.method = "POST" /\ r.url = "deployment-requests"

IsFetch(r) == r.method = "GET"

Validations == SelectSeq(requests, IsValidation)

Promotions == SelectSeq(requests, IsPromotion)

Fetches == SelectSeq(requests, IsFetch)

Mutations == Len(Validations) + Len(Promotions)

Exited == pc = "exit"

\* flow has run resolve (it returned or raised).
Resolved == schema # Unset /\ pc \in {"flow_check", "exit"}

TokenPresent == token.t = "str" /\ Len(token.s) > 0

TokenAbsent == token.t = "none" \/ (token.t = "str" /\ Len(token.s) = 0)

DocumentAbsent == schema.t = "none"

IdentityAbsent == spec.t = "none"

\* The self section the envelope flag selects, None when the document is
\* an object without it.
Section(doc, meta) ==
    IF ~meta
    THEN IF "self" \in DOMAIN doc.d THEN doc.d["self"] ELSE PyNone
    ELSE IF "data" \in DOMAIN doc.d /\ "self" \in DOMAIN doc.d["data"].d
         THEN doc.d["data"].d["self"] ELSE PyNone

LacksIdentity(doc, meta) ==
    /\ doc.t = "dict"
    /\ \/ Section(doc, meta).t = "none"
       \/ ~(SelfKeys \subseteq DOMAIN Section(doc, meta).d)

HasVersion(doc, meta) ==
    /\ doc.t = "dict"
    /\ Section(doc, meta).t = "dict"
    /\ SelfKeys \subseteq DOMAIN Section(doc, meta).d

VersionText(doc, meta) == Section(doc, meta).d["version"].s

Digits == {"0", "1", "2", "3", "4", "5", "6", "7", "8", "9"}

IsInteger(cs) == Len(cs) > 0 /\ \A i \in 1..Len(cs) : cs[i] \in Digits

DigitValue(c) == CHOOSE n \in 0..9 : <<"0", "1", "2", "3", "4", "5", "6", "7", "8", "9">>[n + 1] = c

RECURSIVE IntValue(_)
IntValue(cs) ==
    IF cs = << >> THEN 0
    ELSE 10 * IntValue(SubSeq(cs, 1, Len(cs) - 1)) + DigitValue(cs[Len(cs)])

\* Exactly three hyphen-separated integers.
WellFormed(cs) ==
    /\ Len(Split(cs)) = 3
    /\ \A i \in 1..3 : IsInteger(Split(cs)[i])

ServiceSaidSuccess ==
    /\ response.t = "Response"
    /\ response.ok
    /\ response.body.t = "dict"
    /\ "success" \in DOMAIN response.body.d
    /\ response.body.d["success"] = PyBool(TRUE)

(***************************************************************************)
(* Properties                                                              *)
(***************************************************************************)
AllPresent ==
    /\ TokenPresent
    /\ schema.t \notin {"unset", "none"}
    /\ spec.t = "Deployment"

\* C1 as stated: every run that is not token-only ends having sent exactly
\* one mutating request (one validation POST or one promotion POST); read
\* here of the runs flow returns from.
C1_ExactlyOneMutation ==
    (Exited /\ ~args.token_only /\ exc = "none") => Mutations = 1

\* C1 amended: a run never sends more than one mutating request (never a
\* validation and a promotion, never the same one twice, whatever the
\* service answers); a run that is not token-only ends having sent exactly
\* one if token, document and identity were all obtained, and none
\* otherwise.
C1_AtMostOneMutation ==
    /\ Mutations <= 1
    /\ (Exited /\ ~args.token_only) => (Mutations = 1 <=> AllPresent)

\* A run whose single validation was answered with a failure.
C1_Witness ==
    /\ Exited
    /\ ~args.token_only
    /\ Len(Validations) = 1
    /\ Mutations = 1
    /\ response.t = "Response"
    /\ ~ServiceSaidSuccess

\* C2 as stated: when the token, the document or the identity is absent,
\* flow returns False, no validation or promotion request is sent, and
\* nothing is done after the first absent item (no document read after an
\* absent token, no identity resolution after an absent document).
C2_FailsImmediately ==
    (Exited /\ ~args.token_only /\ (TokenAbsent \/ DocumentAbsent \/ IdentityAbsent))
      => /\ result = PyBool(FALSE)
         /\ exc = "none"
         /\ Mutations = 0
         /\ TokenAbsent => schema = Unset
         /\ DocumentAbsent => spec = Unset

\* C3 as stated: a document whose self.version is not exactly three
\* hyphen-separated integers makes resolve return None, and the run sends
\* no validation or promotion request.
C3_MalformedVersionRejected ==
    (/\ Resolved
     /\ HasVersion(schema, args.includes_meta)
     /\ ~WellFormed(VersionText(schema, args.includes_meta)))
      => /\ IdentityAbsent
         /\ exc = "none"
         /\ Mutations = 0

LocalInputMalformed ==
    /\ Resolved
    /\ \/ DocumentAbsent
       \/ LacksIdentity(schema, args.includes_meta)
       \/ /\ HasVersion(schema, args.includes_meta)
          /\ ~WellFormed(VersionText(schema, args.includes_meta))

ResponseFailed ==
    \/ response.t = "raise"
    \/ /\ response.t = "Response"
       /\ response.ok
       /\ \/ response.body.t = "notjson"
          \/ /\ response.body.t = "dict"
             /\ \/ "success" \notin DOMAIN response.body.d
                \/ response.body.d["success"] = PyBool(FALSE)

\* C4 as stated: a run that met a transport error, a non-JSON body, a body
\* without the expected field, malformed local input or success:false ends
\* without an uncaught exception and with exit code 1.
C4_FailuresHandled ==
    (Exited /\ (token.t = "none" \/ LocalInputMalformed \/ ResponseFailed))
      => /\ exc = "none"
         /\ exit_code = 1

\* C5: with --token-only, whatever the other flags, the run makes exactly
\* one token fetch and nothing else: no document is read, no identity
\* resolved, no validation or promotion sent; it exits 1 printing nothing if
\* the fetch gave no token, and exits 0 having printed the token otherwise.
C5_TokenOnly ==
    args.token_only
      => /\ schema = Unset
         /\ spec = Unset
         /\ Mutations = 0
         /\ requests = IF Exited THEN <<TokenRequest>> ELSE << >>
         /\ Exited => IF TokenPresent
                      THEN exit_code = 0 /\ stdout = <<token>>
                      ELSE exit_code = 1 /\ stdout = << >>

\* A token-only run given every other flag as well, which printed the
\* fetched token.
C5_Witness ==
    /\ args.token_only
    /\ args.promote_to_dev
    /\ args.promote_to_prod
    /\ args.token = GivenToken
    /\ Exited
    /\ exit_code = 0
    /\ stdout = <<FetchedToken>>

\* C6 as stated: a document without self (data.self under the envelope
\* flag), or without one of vendor, name, format, version, makes resolve
\* return None, and so does a malformed version: the caller sees the same
\* absent result in both cases.
C6_MissingIdentityAbsent ==
    Resolved
      => /\ LacksIdentity(schema, args.includes_meta)
              => (IdentityAbsent /\ exc = "none")
         /\ (/\ HasVersion(schema, args.includes_meta)
             /\ ~WellFormed(VersionText(schema, args.includes_meta)))
              => (IdentityAbsent /\ exc = "none")

\* C7 as stated: the answer to a validation or promotion is interpreted as
\* True when the status is a success status and the body is JSON whose
\* success field is true, and as False for every other answer.
C7_ResponseInterpretation ==
    (Exited /\ response.t # "unset")
      => /\ exc = "none"
         /\ result = PyBool(ServiceSaidSuccess)

PromotionPair(r) == <<r.json.source, r.json.target>>

\* C8: every promotion sent carries (VALIDATED, DEV) or (DEV, PROD), the
\* latter exactly when --promote-to-prod is set (also when --promote-to-dev
\* is set with it); at most one promotion is sent, only when a promotion flag
\* is set, and a validation is sent only when neither is.
C8_PromotionPair ==
    /\ \A i \in 1..Len(requests) :
         IsPromotion(requests[i])
           => PromotionPair(requests[i]) =
                IF args.promote_to_prod THEN <<"DEV", "PROD">>
                ELSE <<"VALIDATED", "DEV">>
    /\ Len(Promotions) <= 1
    /\ Len(Promotions) = 1 => (args.promote_to_dev \/ args.promote_to_prod)
    /\ Len(Validations) > 0 => ~(args.promote_to_dev \/ args.promote_to_prod)
    /\ (Exited /\ Mutations = 1 /\ (args.promote_to_dev \/ args.promote_to_prod))
         => Len(Promotions) = 1

\* Both promotion flags set: one promotion, from DEV to PROD.
C8_Witness ==
    /\ args.promote_to_dev
    /\ args.promote_to_prod
    /\ Exited
    /\ Len(requests) > 0
    /\ IsPromotion(requests[Len(requests)])
    /\ PromotionPair(requests[Len(requests)]) = <<"DEV", "PROD">>

\* C9 as stated: a document whose version is "M-R-A" with integers M, R, A
\* resolves to a Deployment whose version is the integer triple and whose
\* identity is the document's vendor, name and format, and the version a
\* promotion sends is the document's version text.
C9_VersionRoundTrip ==
    (/\ Resolved
     /\ HasVersion(schema, args.includes_meta)
     /\ WellFormed(VersionText(schema, args.includes_meta)))
      => LET text == VersionText(schema, args.includes_meta)
             sec  == Section(schema, args.includes_meta)
         IN  /\ spec.t = "Deployment"
             /\ spec.version.model.t = "int"
             /\ spec.version.model = PyInt(IntValue(Split(text)[1]))
             /\ spec.version.revision = PyInt(IntValue(Split(text)[2]))
             /\ spec.version.addition = PyInt(IntValue(Split(text)[3]))
             /\ spec.data_structure =
                  DataStructure(sec.d["vendor"], sec.d["name"], sec.d["format"])
             /\ \A i \in 1..Len(requests) :
                  IsPromotion(requests[i]) => requests[i].json.version = text

PrimarySucceeded ==
    IF args.token_only THEN TokenPresent ELSE result = PyBool(TRUE)

\* C10: every run ends, with exit code 0 if its primary operation succeeded
\* (token obtained in token-only mode, validate or promote returned True
\* otherwise) and with exit code 1 in every other case.
C10_ExitCode ==
    <>[](Exited /\ exit_code = IF PrimarySucceeded THEN 0 ELSE 1)

\* A promotion the service accepted, ending with exit code 0.
C10_Witness ==
    /\ Exited
    /\ ~args.token_only
    /\ Len(Promotions) = 1
    /\ result = PyBool(TRUE)
    /\ exit_code = 0

====
